---- MODULE Spec2Model ----
(***************************************************************************)
(* Merge-dice: the merge-grid game engine (class Game, src/src/js/game.js) *)
(* together with the input layer that drives it (class UI,                 *)
(* src/src/js/ui.js, the key handler of src/src/index.js) and the ad gate  *)
(* in front of a new session (CrazyGamesSDK.showMidgameAd,                 *)
(* src/src/js/audio.js).                                                   *)
(*                                                                         *)
(* game.js holds two builds of class Game (lines 1-580, Yandex; lines      *)
(* 581-1952, CrazyGames).  The engine handlers modelled here are the same  *)
(* statement for statement in both; line numbers refer to the second.      *)
(*                                                                         *)
(* A handler runs to completion (single-threaded event loop), so each      *)
(* handler is one action.  Handlers are written as operators on a record   *)
(* g of the session fields, in the order of the code's statements.         *)
(***************************************************************************)
EXTENDS Integers, Sequences, FiniteSets, TLC

\* ---------------------------------------------------------------- bounds
\* Side of the square grid (the code's default is 5, game.js:595).
BoardSize == 2
\* Merges allowed over the whole run (every merge appends one score record).
MaxSaved == 2
\* Largest die value of the grids enumerated for the pure isGameOver check.
GridMaxVal == 2
\* Largest score handed to saveScore when it is exercised on its own.
MaxScoreVal == 3
MaxCallbacks == 4

\* ------------------------------------------------------ program constants
initialDice == 3
TopK == 10
\* An empty cell: JavaScript null.  In arithmetic null converts to 0.
Null == 0
\* "no cell": selectedCell = null, startCellIndex = null, targetCellIndex = -1.
NoCell == -1
\* Math.random() < 0.7 ? 1 : 2
SpawnValues == {1, 2}

Cells == 0 .. (BoardSize * BoardSize - 1)
Rows == 0 .. (BoardSize - 1)

VARIABLES
    board,          \* Game.board: Cells -> Null or a die value
    score,          \* Game.score
    moveCount,      \* Game.moveCount
    highestDie,     \* Game.highestDie
    selectedCell,   \* Game.selectedCell: a cell or NoCell
    gameOver,       \* Game.gameOver
    highScores,     \* Game.highScores: sequence of [score, highestDie]
    scoreChanged,   \* Game.scoreChanged
    addDieDisabled, \* #add-die-btn .disabled
    selectedCls,    \* cells whose element carries the class 'selected'
    isDragging,     \* UI.isDragging
    startCellIndex, \* UI.startCellIndex
    clonedDie,      \* UI.clonedDie: the value shown by the dragged clone, or Null
    started,        \* Game.init() has run: the listeners are attached
    sdkInitialized, \* crazyGamesSDK.initialized
    adRequested,    \* crazyGamesSDK.adRequested: a midgame ad is outstanding
    adsPending,     \* platform: the sdk.ad.requestAd calls not yet reported as
                    \* finished or failed, oldest first, each with its caller
    overlapped,     \* history: while the ad of a new-game request is
                    \* outstanding, a later request has reset the session
    initDone,       \* the SDK wrapper's init() has run to its end
    initCallbacks,  \* the SDK wrapper's initCallbacks: queue of callback ids
    calls,          \* history: registered callback id -> times it was called
    lookups,        \* pending getPlayerLeaderboardScore promises of
                    \* updateYandexLeaderboard, each with the score at its call
    submitted,      \* history: <<>>, or the last yandexSDK.saveScore call
    emitted,        \* notifications sent by the handler that ran last, in order
    mergeCall,      \* the mergeDice call of the handler that ran last, or <<>>
    maxEver,        \* history: largest die value seen on the grid this session
    result,         \* <<>>, or <<r>> for the result r of a pure function
    lastEvent       \* history: the input event the last handler served, with
                    \* the selection and the gameOver flag it found

vars == <<board, score, moveCount, highestDie, selectedCell, gameOver,
          highScores, scoreChanged, addDieDisabled, selectedCls, isDragging,
          startCellIndex, clonedDie, started, sdkInitialized, adRequested,
          adsPending, overlapped, initDone, initCallbacks, calls, lookups,
          submitted, emitted, mergeCall, maxEver, result, lastEvent>>

uiVars == <<isDragging, startCellIndex, clonedDie>>
adVars == <<adsPending, overlapped>>
wrapVars == <<initDone, initCallbacks, calls>>
boardVars == <<lookups, submitted>>
sdkVars == <<sdkInitialized, adRequested, adVars, wrapVars, boardVars>>

\* ---------------------------------------------------------------- helpers
Max(a, b) == IF a >= b THEN a ELSE b

\* Number(null) = 0; a die value is itself.
ToNumber(v) == IF v = Null THEN 0 ELSE v

EmptyBoard == [c \in Cells |-> Null]

EmptyCells(b) == {c \in Cells : b[c] = Null}

BoardMax(b) == CHOOSE m \in {ToNumber(b[c]) : c \in Cells} :
                  \A c \in Cells : ToNumber(b[c]) <= m

\* The session fields as one record, with the logs of the running handler
\* cleared.
Session ==
    [board |-> board, score |-> score, moveCount |-> moveCount,
     highestDie |-> highestDie, selectedCell |-> selectedCell,
     gameOver |-> gameOver, highScores |-> highScores,
     scoreChanged |-> scoreChanged, addDieDisabled |-> addDieDisabled,
     selectedCls |-> selectedCls, emitted |-> <<>>, mergeCall |-> <<>>,
     maxEver |-> maxEver]

Store(g) ==
    /\ board' = g.board
    /\ score' = g.score
    /\ moveCount' = g.moveCount
    /\ highestDie' = g.highestDie
    /\ selectedCell' = g.selectedCell
    /\ gameOver' = g.gameOver
    /\ highScores' = g.highScores
    /\ scoreChanged' = g.scoreChanged
    /\ addDieDisabled' = g.addDieDisabled
    /\ selectedCls' = g.selectedCls
    /\ emitted' = g.emitted
    /\ mergeCall' = g.mergeCall
    /\ maxEver' = Max(g.maxEver, BoardMax(g.board))

Emit(g, n) == [g EXCEPT !.emitted = Append(@, n)]

\* No event yet.
NoEvent == [op |-> "none", cell |-> NoCell, sel |-> NoCell, over |-> FALSE]

\* The event op arriving, at a cell or at NoCell, in the current state.
Event(op, cell) ==
    [op |-> op, cell |-> cell, sel |-> selectedCell, over |-> gameOver]

\* ------------------------------------------------------------ Game engine
\* Variant of updateAddDieButton that looks at the empty cells only.
UpdateAddDieButtonIgnoresOver(g) ==
    Emit([g EXCEPT !.addDieDisabled = (EmptyCells(g.board) = {})],
         "updateAddDieButton")

UpdateAddDieButton(g) ==
    Emit([g EXCEPT !.addDieDisabled = (EmptyCells(g.board) = {}) \/ g.gameOver],
         "updateAddDieButton")

\* Variant of isGameOver that scans the right neighbour only.
IsGameOverRightOnly(b) ==
    IF \E c \in Cells : b[c] = Null THEN FALSE
    ELSE ~ \E row \in Rows, col \in Rows :
             /\ col < BoardSize - 1
             /\ b[row * BoardSize + (col + 1)] = b[row * BoardSize + col]

\* Variant of the end test that counts equal dice anywhere on the grid.
IsGameOverAnyPair(b) ==
    IF \E c \in Cells : b[c] = Null THEN FALSE
    ELSE ~ \E c, d \in Cells : c # d /\ b[c] = b[d]

IsGameOver(b) ==
    IF \E c \in Cells : b[c] = Null THEN FALSE
    ELSE ~ \E row \in Rows, col \in Rows :
             LET index == row * BoardSize + col IN
             \/ /\ col < BoardSize - 1
                /\ b[row * BoardSize + (col + 1)] = b[index]
             \/ /\ row < BoardSize - 1
                /\ b[(row + 1) * BoardSize + col] = b[index]

HandleGameOver(g) ==
    LET g1 == Emit([g EXCEPT !.gameOver = TRUE], "sound:gameover")
        g2 == Emit(g1, "showGameOver")
    IN UpdateAddDieButton(g2)

\* Variant of the insertion for the comparator a.score - b.score (ascending).
RECURSIVE InsertAsc(_, _)
InsertAsc(s, e) ==
    IF s = <<>> THEN <<e>>
    ELSE IF e.score < Head(s).score THEN <<e>> \o s
    ELSE <<Head(s)>> \o InsertAsc(Tail(s), e)

\* Array.prototype.sort with (a, b) => b.score - a.score: stable, descending.
RECURSIVE InsertDesc(_, _)
InsertDesc(s, e) ==
    IF s = <<>> THEN <<e>>
    ELSE IF e.score > Head(s).score THEN <<e>> \o s
    ELSE <<Head(s)>> \o InsertDesc(Tail(s), e)

RECURSIVE SortDesc(_)
SortDesc(s) ==
    IF s = <<>> THEN <<>>
    ELSE InsertDesc(SortDesc(SubSeq(s, 1, Len(s) - 1)), s[Len(s)])

SaveScore(g) ==
    IF g.score <= 0 THEN g
    ELSE LET entry == [score |-> g.score, highestDie |-> g.highestDie]
             sorted == SortDesc(Append(g.highScores, entry))
             kept == IF Len(sorted) > TopK THEN SubSeq(sorted, 1, TopK)
                     ELSE sorted
         IN Emit([g EXCEPT !.scoreChanged = TRUE, !.highScores = kept],
                 "saveScore")

\* Variant of the merge placement that writes the new die one index past
\* the second cell; an index past the end lengthens the array.
MergedBoardShifted(b, index1, index2, newValue) ==
    [k \in (DOMAIN b) \cup {index2 + 1} |->
        IF k = index2 + 1 THEN newValue
        ELSE IF k \in {index1, index2} THEN Null
        ELSE b[k]]

\* Variant of the merge placement that leaves the first die where it is.
MergedBoardKeepsSource(b, index1, index2, newValue) ==
    [b EXCEPT ![index2] = newValue]

\* Variant of the merge placement with the new die in the first cell.
MergedBoardReversed(b, index1, index2, newValue) ==
    LET b1 == [b EXCEPT ![index1] = Null]
        b2 == [b1 EXCEPT ![index2] = Null]
    IN [b2 EXCEPT ![index1] = newValue]

\* "Remove dice from both cells", then "Place new die in the second cell".
MergedBoard(b, index1, index2, newValue) ==
    LET b1 == [b EXCEPT ![index1] = Null]
        b2 == [b1 EXCEPT ![index2] = Null]
    IN [b2 EXCEPT ![index2] = newValue]

\* Variant of the score law that is exponential in the merged value.
MergeScoreExp(s, newValue) == s + 2 ^ newValue

\* this.score += newValue * 2
MergeScore(s, newValue) == s + newValue * 2

\* Variant of the highest-die update that assigns without comparing.
UpdateHighestAlways(g, newValue) ==
    Emit(Emit([g EXCEPT !.highestDie = newValue], "sound:upgrade"),
         "showMessage")

\* Variant of the highest-die update that also fires on an equal value.
UpdateHighestOnEqual(g, newValue) ==
    IF newValue >= g.highestDie
    THEN Emit(Emit([g EXCEPT !.highestDie = newValue], "sound:upgrade"),
              "showMessage")
    ELSE g

\* Variant of the highest-die update that announces the record without
\* storing it.
UpdateHighestSoundOnly(g, newValue) ==
    IF newValue > g.highestDie
    THEN Emit(Emit(g, "sound:upgrade"), "showMessage")
    ELSE g

\* "Update highest die if needed", with the upgrade sound and the message.
UpdateHighest(g, newValue) ==
    IF newValue > g.highestDie
    THEN Emit(Emit([g EXCEPT !.highestDie = newValue], "sound:upgrade"),
              "showMessage")
    ELSE g

\* Variant of mergeDice that updates the score display before the merge
\* animation and sound, and checks for the end of the game before it.
MergeDiceScoreFirst(g, index1, index2) ==
    LET value == g.board[index1]
        newValue == ToNumber(value) + 1
        call == <<[src |-> index1, tgt |-> index2,
                   v1 |-> g.board[index1], v2 |-> g.board[index2]]>>
        g1 == [g EXCEPT !.board = MergedBoard(@, index1, index2, newValue),
                        !.mergeCall = call]
        g2 == SaveScore([g1 EXCEPT !.score = MergeScore(@, newValue)])
        g3 == [g2 EXCEPT !.moveCount = @ + 1]
        g4 == UpdateHighest(g3, newValue)
        g5 == [g4 EXCEPT !.selectedCls = @ \ {index1},
                         !.selectedCell = NoCell]
        g6 == IF IsGameOver(g5.board) THEN HandleGameOver(g5) ELSE g5
        g7 == UpdateAddDieButton(Emit(g6, "updateScore"))
    IN Emit(Emit(g7, "animateMerge"), "sound:merge")

\* Variant of the merge that leaves selectedCell as it found it.
MergeDiceKeepsSelection(g, index1, index2) ==
    LET value == g.board[index1]
        newValue == ToNumber(value) + 1
        call == <<[src |-> index1, tgt |-> index2,
                   v1 |-> g.board[index1], v2 |-> g.board[index2]]>>
        g1 == Emit(Emit([g EXCEPT
                           !.board = MergedBoard(@, index1, index2, newValue),
                           !.mergeCall = call],
                        "animateMerge"), "sound:merge")
        g2 == SaveScore([g1 EXCEPT !.score = MergeScore(@, newValue)])
        g3 == [g2 EXCEPT !.moveCount = @ + 1]
        g4 == UpdateHighest(g3, newValue)
        g5 == [g4 EXCEPT !.selectedCls = @ \ {index1}]
        g6 == UpdateAddDieButton(Emit(g5, "updateScore"))
    IN IF IsGameOver(g6.board) THEN HandleGameOver(g6) ELSE g6

MergeDice(g, index1, index2) ==
    LET value == g.board[index1]
        newValue == ToNumber(value) + 1
        call == <<[src |-> index1, tgt |-> index2,
                   v1 |-> g.board[index1], v2 |-> g.board[index2]]>>
        g1 == Emit(Emit([g EXCEPT
                           !.board = MergedBoard(@, index1, index2, newValue),
                           !.mergeCall = call],
                        "animateMerge"), "sound:merge")
        g2 == SaveScore([g1 EXCEPT !.score = MergeScore(@, newValue)])
        g3 == [g2 EXCEPT !.moveCount = @ + 1]
        g4 == UpdateHighest(g3, newValue)
        g5 == [g4 EXCEPT !.selectedCls = @ \ {index1},
                         !.selectedCell = NoCell]
        g6 == UpdateAddDieButton(Emit(g5, "updateScore"))
    IN IF IsGameOver(g6.board) THEN HandleGameOver(g6) ELSE g6

\* Variant of the placement that ends the game whenever the grid is full.
PlaceDieOverWhenFull(g, randomIndex, value) ==
    LET g1 == Emit(Emit([g EXCEPT !.board[randomIndex] = value],
                        "animateNew"), "sound:place")
        g2 == UpdateAddDieButton(g1)
    IN IF EmptyCells(g2.board) = {} THEN HandleGameOver(g2) ELSE g2

\* Variant of the placement that counts the new die towards highestDie.
PlaceDieUpdatesHighest(g, randomIndex, value) ==
    LET g1 == Emit(Emit([g EXCEPT !.board[randomIndex] = value,
                                  !.highestDie = Max(@, value)],
                        "animateNew"), "sound:place")
        g2 == UpdateAddDieButton(g1)
    IN IF IsGameOver(g2.board) THEN HandleGameOver(g2) ELSE g2

\* One outcome of addRandomDie on a grid with an empty cell.
PlaceDie(g, randomIndex, value) ==
    LET g1 == Emit(Emit([g EXCEPT !.board[randomIndex] = value],
                        "animateNew"), "sound:place")
        g2 == UpdateAddDieButton(g1)
    IN IF IsGameOver(g2.board) THEN HandleGameOver(g2) ELSE g2

\* Variant of addRandomDie that draws the cell from the whole grid.
AddRandomDieAnyCell(g) ==
    IF EmptyCells(g.board) = {} THEN {UpdateAddDieButton(g)}
    ELSE {PlaceDie(g, randomIndex, value) :
             randomIndex \in Cells, value \in SpawnValues}

\* Variant of addRandomDie that returns from a full grid without touching
\* the button.
AddRandomDieNoRefresh(g) ==
    IF EmptyCells(g.board) = {} THEN {g}
    ELSE {PlaceDie(g, randomIndex, value) :
             randomIndex \in EmptyCells(g.board), value \in SpawnValues}

\* Every outcome of addRandomDie.
AddRandomDie(g) ==
    IF EmptyCells(g.board) = {} THEN {UpdateAddDieButton(g)}
    ELSE {PlaceDie(g, randomIndex, value) :
             randomIndex \in EmptyCells(g.board), value \in SpawnValues}

RECURSIVE AddDice(_, _)
AddDice(S, n) ==
    IF n = 0 THEN S
    ELSE AddDice(UNION {AddRandomDie(g) : g \in S}, n - 1)

\* Variant of the reset that keeps the previous session's highestDie.
ResetStateKeepHighest(g) ==
    [g EXCEPT !.board = EmptyBoard, !.score = 0, !.moveCount = 0,
              !.selectedCell = NoCell, !.gameOver = FALSE,
              !.scoreChanged = FALSE, !.maxEver = 0]

\* Variant of the reset that leaves the gameOver flag as it was.
ResetStateKeepOver(g) ==
    [g EXCEPT !.board = EmptyBoard, !.score = 0, !.moveCount = 0,
              !.highestDie = 1, !.selectedCell = NoCell,
              !.scoreChanged = FALSE, !.maxEver = 0]

\* "Reset game state"
ResetState(g) ==
    [g EXCEPT !.board = EmptyBoard, !.score = 0, !.moveCount = 0,
              !.highestDie = 1, !.selectedCell = NoCell, !.gameOver = FALSE,
              !.scoreChanged = FALSE, !.maxEver = 0]

\* Every outcome of actuallyStartNewGame.
ActuallyStartNewGame(g) ==
    LET g1 == Emit([ResetState(g) EXCEPT !.selectedCls = {}], "resetBoard")
    IN {UpdateAddDieButton(Emit(Emit(g2, "updateScore"), "hideGameOver")) :
           g2 \in AddDice({g1}, initialDice)}

\* Variant of handleCellClick without the empty-cell check.
HandleCellClickNoEmptyCheck(g, index) ==
    IF g.gameOver THEN g
    ELSE IF g.selectedCell = NoCell
    THEN Emit([g EXCEPT !.selectedCell = index,
                        !.selectedCls = @ \cup {index}], "sound:select")
    ELSE IF g.selectedCell = index
    THEN [g EXCEPT !.selectedCls = @ \ {index}, !.selectedCell = NoCell]
    ELSE IF g.board[g.selectedCell] = g.board[index]
    THEN MergeDice(g, g.selectedCell, index)
    ELSE Emit([g EXCEPT !.selectedCls = (@ \ {g.selectedCell}) \cup {index},
                        !.selectedCell = index], "sound:select")

\* Variant of handleCellClick that merges with the clicked cell as the source.
HandleCellClickReversed(g, index) ==
    IF g.gameOver THEN g
    ELSE IF g.board[index] = Null THEN g
    ELSE IF g.selectedCell = NoCell
    THEN Emit([g EXCEPT !.selectedCell = index,
                        !.selectedCls = @ \cup {index}], "sound:select")
    ELSE IF g.selectedCell = index
    THEN [g EXCEPT !.selectedCls = @ \ {index}, !.selectedCell = NoCell]
    ELSE IF g.board[g.selectedCell] = g.board[index]
    THEN MergeDice(g, index, g.selectedCell)
    ELSE Emit([g EXCEPT !.selectedCls = (@ \ {g.selectedCell}) \cup {index},
                        !.selectedCell = index], "sound:select")

\* Variant of handleCellClick without the return after the first selection:
\* the "already selected" test that follows deselects the cell again.
HandleCellClickNoReturn(g, index) ==
    IF g.gameOver THEN g
    ELSE IF g.board[index] = Null THEN g
    ELSE IF g.selectedCell = NoCell
    THEN Emit([g EXCEPT !.selectedCell = NoCell,
                        !.selectedCls = @ \ {index}], "sound:select")
    ELSE IF g.selectedCell = index
    THEN [g EXCEPT !.selectedCls = @ \ {index}, !.selectedCell = NoCell]
    ELSE IF g.board[g.selectedCell] = g.board[index]
    THEN MergeDice(g, g.selectedCell, index)
    ELSE Emit([g EXCEPT !.selectedCls = (@ \ {g.selectedCell}) \cup {index},
                        !.selectedCell = index], "sound:select")

\* Variant of handleCellClick without the "already selected" test: a click on
\* the selected cell reaches the value comparison and merges it with itself.
HandleCellClickNoToggle(g, index) ==
    IF g.gameOver THEN g
    ELSE IF g.board[index] = Null THEN g
    ELSE IF g.selectedCell = NoCell
    THEN Emit([g EXCEPT !.selectedCell = index,
                        !.selectedCls = @ \cup {index}], "sound:select")
    ELSE IF g.board[g.selectedCell] = g.board[index]
    THEN MergeDice(g, g.selectedCell, index)
    ELSE Emit([g EXCEPT !.selectedCls = (@ \ {g.selectedCell}) \cup {index},
                        !.selectedCell = index], "sound:select")

\* Variant of handleCellClick that keeps the old selection when the values
\* differ.
HandleCellClickKeepsSelection(g, index) ==
    IF g.gameOver THEN g
    ELSE IF g.board[index] = Null THEN g
    ELSE IF g.selectedCell = NoCell
    THEN Emit([g EXCEPT !.selectedCell = index,
                        !.selectedCls = @ \cup {index}], "sound:select")
    ELSE IF g.selectedCell = index
    THEN [g EXCEPT !.selectedCls = @ \ {index}, !.selectedCell = NoCell]
    ELSE IF g.board[g.selectedCell] = g.board[index]
    THEN MergeDice(g, g.selectedCell, index)
    ELSE Emit(g, "sound:select")

HandleCellClick(g, index) ==
    IF g.gameOver THEN g
    ELSE IF g.board[index] = Null THEN g
    ELSE IF g.selectedCell = NoCell
    THEN Emit([g EXCEPT !.selectedCell = index,
                        !.selectedCls = @ \cup {index}], "sound:select")
    ELSE IF g.selectedCell = index
    THEN [g EXCEPT !.selectedCls = @ \ {index}, !.selectedCell = NoCell]
    ELSE IF g.board[g.selectedCell] = g.board[index]
    THEN MergeDice(g, g.selectedCell, index)
    ELSE Emit([g EXCEPT !.selectedCls = (@ \ {g.selectedCell}) \cup {index},
                        !.selectedCell = index], "sound:select")

\* ------------------------------------------------------------------ Init
Init ==
    /\ board = EmptyBoard
    /\ score = 0
    /\ moveCount = 0
    /\ highestDie = 1
    /\ selectedCell = NoCell
    /\ gameOver = FALSE
    /\ highScores = <<>>
    /\ scoreChanged = FALSE
    /\ addDieDisabled = FALSE
    /\ selectedCls = {}
    /\ isDragging = FALSE
    /\ startCellIndex = NoCell
    /\ clonedDie = Null
    /\ started = FALSE
    /\ sdkInitialized = FALSE
    /\ adRequested = FALSE
    /\ adsPending = <<>>
    /\ overlapped = FALSE
    /\ initDone = TRUE
    /\ initCallbacks = <<>>
    /\ calls = <<>>
    /\ lookups = <<>>
    /\ submitted = <<>>
    /\ emitted = <<>>
    /\ mergeCall = <<>>
    /\ maxEver = 0
    /\ result = <<>>
    /\ lastEvent = NoEvent

\* --------------------------------------------------------------- actions
\* The run is bounded by the number of merges made (one score record each).
Budget == Len(highScores) < MaxSaved

\* Game.startNewGame: the ad gate, then actuallyStartNewGame.  A promise
\* that is already settled runs its callback before any other event.
StartNewGame ==
    IF sdkInitialized /\ ~adRequested
    THEN /\ adRequested' = TRUE
         /\ adsPending' = Append(adsPending, "newGame")
         /\ overlapped' = FALSE
         /\ Store(Emit(Session, "requestAd"))
         /\ UNCHANGED <<sdkInitialized, wrapVars, boardVars>>
    ELSE /\ \E g \in ActuallyStartNewGame(Session) : Store(g)
         /\ overlapped' = adRequested
         /\ UNCHANGED <<sdkInitialized, adRequested, adsPending, wrapVars,
                        boardVars>>

\* Game.init(): attaches the listeners and asks for the first session.
GameInit ==
    /\ ~started
    /\ started' = TRUE
    /\ StartNewGame
    /\ lastEvent' = Event("init", NoCell)
    /\ UNCHANGED <<uiVars, result>>

\* #new-game-btn / #restart-btn click, or the N key.
NewGameClick ==
    /\ started
    /\ Budget
    /\ StartNewGame
    /\ lastEvent' = Event("newGame", NoCell)
    /\ UNCHANGED <<uiVars, started, result>>

\* Variant of the ad callback that only clears the request.
AdDoneNoReset ==
    /\ adRequested
    /\ adsPending # <<>>
    /\ Head(adsPending) = "newGame"
    /\ adRequested' = FALSE
    /\ adsPending' = Tail(adsPending)
    /\ overlapped' = FALSE
    /\ Store(Session)
    /\ lastEvent' = Event("adDone", NoCell)
    /\ UNCHANGED <<uiVars, started, sdkInitialized, wrapVars, boardVars,
                   result>>

\* adFinished or adError of the outstanding midgame ad: the promise of
\* showMidgameAd resolves and startNewGame's callback resets the session.
AdDone ==
    /\ adRequested
    /\ adsPending # <<>>
    /\ Head(adsPending) = "newGame"
    /\ adRequested' = FALSE
    /\ adsPending' = Tail(adsPending)
    /\ overlapped' = FALSE
    /\ \E g \in ActuallyStartNewGame(Session) : Store(g)
    /\ lastEvent' = Event("adDone", NoCell)
    /\ UNCHANGED <<uiVars, started, sdkInitialized, wrapVars, boardVars,
                   result>>

\* triggerInitCallbacks: every queued callback is called, in order (the
\* queue is cleared by the caller's next statement).
TriggerInitCallbacks(q, c) ==
    [cb \in DOMAIN c |->
        c[cb] + Cardinality({i \in 1 .. Len(q) : q[i] = cb})]

\* The platform SDK becomes available after construction: the listener that
\* init() left for 'CrazyGamesSDKReady' sets initialized and triggers the
\* queued callbacks.
SDKReady ==
    /\ initDone
    /\ ~sdkInitialized
    /\ sdkInitialized' = TRUE
    /\ calls' = TriggerInitCallbacks(initCallbacks, calls)
    /\ initCallbacks' = <<>>
    /\ Store(Session)
    /\ lastEvent' = Event("sdkReady", NoCell)
    /\ UNCHANGED <<uiVars, started, adRequested, adVars, initDone, boardVars,
                   result>>

\* A click on a cell.
CellClick(index) ==
    /\ started
    /\ Budget
    /\ Store(HandleCellClick(Session, index))
    /\ lastEvent' = Event("click", index)
    /\ UNCHANGED <<uiVars, started, sdkVars, result>>

\* #add-die-btn click or the A key: a disabled button fires nothing.
AddDieClick ==
    /\ started
    /\ Budget
    /\ ~addDieDisabled
    /\ \E g \in AddRandomDie(Session) : Store(g)
    /\ lastEvent' = Event("addDie", NoCell)
    /\ UNCHANGED <<uiVars, started, sdkVars, result>>

\* UI.handleDragStart (mousedown / touchstart on a cell).
HandleDragStart(cellIndex) ==
    /\ started
    /\ Budget
    /\ IF gameOver \/ board[cellIndex] = Null
       THEN /\ Store(Session)
            /\ UNCHANGED uiVars
       ELSE /\ startCellIndex' = cellIndex
            /\ isDragging' = TRUE
            /\ clonedDie' = board[cellIndex]
            /\ Store(Emit(Session, "sound:select"))
    /\ lastEvent' = Event("dragStart", cellIndex)
    /\ UNCHANGED <<started, sdkVars, result>>

\* UI.handleDragEnd (mouseup / touchend anywhere); targetCellIndex is the
\* cell under the pointer, or NoCell.
HandleDragEnd(targetCellIndex) ==
    /\ started
    /\ Budget
    /\ IF ~isDragging
       THEN /\ Store(Session)
            /\ UNCHANGED uiVars
       ELSE /\ clonedDie' = Null
            /\ IF /\ targetCellIndex # NoCell
                  /\ targetCellIndex # startCellIndex
                  /\ board[targetCellIndex] = board[startCellIndex]
               THEN Store(MergeDice(Session, startCellIndex, targetCellIndex))
               ELSE Store(Session)
            /\ isDragging' = FALSE
            /\ startCellIndex' = NoCell
    /\ lastEvent' = Event("dragEnd", targetCellIndex)
    /\ UNCHANGED <<started, sdkVars, result>>

\* The session with the platform SDK unavailable: a new-game request resets
\* at once.  (A reset delayed by an ad is, for the session, the same step
\* taken at the moment the ad ends; SpecAds has the gate.)
Next ==
    \/ GameInit
    \/ NewGameClick
    \/ \E index \in Cells : CellClick(index)
    \/ AddDieClick
    \/ \E cellIndex \in Cells : HandleDragStart(cellIndex)
    \/ \E targetCellIndex \in Cells \cup {NoCell} : HandleDragEnd(targetCellIndex)

Spec == Init /\ [][Next]_vars

\* The same session behind the ad gate of startNewGame.
InitAds ==
    /\ Init
    /\ sdkInitialized \in BOOLEAN

NextAds ==
    \/ Next
    \/ AdDone
    \/ SDKReady

SpecAds == InitAds /\ [][NextAds]_vars

\* The new-game protocol on its own: requests, the ad callback and the SDK
\* becoming available.  The platform reports every ad it was asked for as
\* finished or failed (adFinished / adError), hence the fairness of AdDone.
NextStart ==
    \/ GameInit
    \/ NewGameClick
    \/ AdDone
    \/ SDKReady

SpecStart == InitAds /\ [][NextStart]_vars /\ WF_vars(AdDone)

\* game.addRandomDie() called directly, as the development build allows
\* through window.game: no button stands in front of the call.
AddRandomDieCall ==
    /\ started
    /\ Budget
    /\ \E g \in AddRandomDie(Session) : Store(g)
    /\ lastEvent' = Event("addRandomDie", NoCell)
    /\ UNCHANGED <<uiVars, started, sdkVars, result>>

NextCall ==
    \/ Next
    \/ AddRandomDieCall

SpecCall == Init /\ [][NextCall]_vars

\* saveScore on its own: called with any score, again and again, on the
\* list the previous calls left (empty at first).
SaveScoreCall(v) ==
    /\ Store(SaveScore([Session EXCEPT !.score = v]))
    /\ lastEvent' = Event("saveScore", NoCell)
    /\ UNCHANGED <<uiVars, started, sdkVars, result>>

NextSave == \E v \in 0 .. MaxScoreVal : SaveScoreCall(v)

SpecSave == Init /\ [][NextSave]_vars

\* isGameOver as a pure function: every grid content with values up to
\* GridMaxVal, then one evaluation.
GridVals == 0 .. GridMaxVal

InitGrid ==
    /\ board \in [Cells -> GridVals]
    /\ score = 0
    /\ moveCount = 0
    /\ highestDie = 1
    /\ selectedCell = NoCell
    /\ gameOver = FALSE
    /\ highScores = <<>>
    /\ scoreChanged = FALSE
    /\ addDieDisabled = FALSE
    /\ selectedCls = {}
    /\ isDragging = FALSE
    /\ startCellIndex = NoCell
    /\ clonedDie = Null
    /\ started = FALSE
    /\ sdkInitialized = FALSE
    /\ adRequested = FALSE
    /\ adsPending = <<>>
    /\ overlapped = FALSE
    /\ initDone = TRUE
    /\ initCallbacks = <<>>
    /\ calls = <<>>
    /\ lookups = <<>>
    /\ submitted = <<>>
    /\ emitted = <<>>
    /\ mergeCall = <<>>
    /\ maxEver = 0
    /\ result = <<>>
    /\ lastEvent = NoEvent

CheckGrid ==
    /\ result = <<>>
    /\ result' = <<IsGameOver(board)>>
    /\ UNCHANGED <<board, score, moveCount, highestDie, selectedCell,
                   gameOver, highScores, scoreChanged, addDieDisabled,
                   selectedCls, uiVars, started, sdkVars, emitted, mergeCall,
                   maxEver, lastEvent>>

NextGrid == CheckGrid

SpecGrid == InitGrid /\ [][NextGrid]_vars

\* mergeDice on its own: one call game.mergeDice(index1, index2) on any grid
\* content and any pair of indices (the method itself tests neither the
\* indices nor the values).
MergeDiceCall(index1, index2) ==
    /\ result = <<>>
    /\ result' = <<"mergeDice">>
    /\ Store(MergeDice(Session, index1, index2))
    /\ lastEvent' = Event("mergeDice", index2)
    /\ UNCHANGED <<uiVars, started, sdkVars>>

NextMerge == \E index1, index2 \in Cells : MergeDiceCall(index1, index2)

SpecMerge == InitGrid /\ [][NextMerge]_vars

\* A drag across a reset: the pointer went down on a die, and before it was
\* released the N key (or the ad callback) started a new session, which
\* leaves the drag state of the UI alone.  The new session holds at most
\* initialDice dice, each a spawn value, and the pressed cell need not hold
\* one of them: the board of the game has room for that (boardSize 5).
InitDrop ==
    /\ board \in [Cells -> {Null} \cup SpawnValues]
    /\ Cardinality(Cells \ EmptyCells(board)) <= initialDice
    /\ score = 0
    /\ moveCount = 0
    /\ highestDie = 1
    /\ selectedCell = NoCell
    /\ gameOver = FALSE
    /\ highScores = <<>>
    /\ scoreChanged = FALSE
    /\ addDieDisabled = FALSE
    /\ selectedCls = {}
    /\ isDragging = TRUE
    /\ startCellIndex \in Cells
    /\ clonedDie \in SpawnValues
    /\ started = TRUE
    /\ sdkInitialized = FALSE
    /\ adRequested = FALSE
    /\ adsPending = <<>>
    /\ overlapped = FALSE
    /\ initDone = TRUE
    /\ initCallbacks = <<>>
    /\ calls = <<>>
    /\ lookups = <<>>
    /\ submitted = <<>>
    /\ emitted = <<>>
    /\ mergeCall = <<>>
    /\ maxEver = BoardMax(board)
    /\ result = <<>>
    /\ lastEvent = NoEvent

NextDrop ==
    \/ \E cellIndex \in Cells : HandleDragStart(cellIndex)
    \/ \E targetCellIndex \in Cells \cup {NoCell} : HandleDragEnd(targetCellIndex)

SpecDrop == InitDrop /\ [][NextDrop]_vars

\* Play behind the ad gate: new-game requests, the callback of the midgame
\* ad, clicks and spawns.
NextOverlap ==
    \/ GameInit
    \/ SDKReady
    \/ NewGameClick
    \/ AdDone
    \/ \E index \in Cells : CellClick(index)
    \/ AddDieClick

SpecOverlap == Init /\ [][NextOverlap]_vars

\* Game.waitForSDKInitialization: the check the constructor runs and then
\* re-arms every 100 ms.  Once crazyGamesSDK.initialized is true it goes on
\* to initLocalization, which ends in init() on success and on failure;
\* until then it only sets the next timer and changes nothing.
CheckSDKInit ==
    /\ ~started
    /\ IF sdkInitialized
       THEN GameInit
       ELSE UNCHANGED vars

\* Startup of the CrazyGames build: the constructor has run the wrapper's
\* init(), which left initialized false (no SDK on the page, or an error);
\* the SDK may announce itself later, or never.  The timer of the check
\* always fires, and the platform reports every ad it was asked for.
NextBoot ==
    \/ CheckSDKInit
    \/ SDKReady
    \/ NewGameClick
    \/ AdDone
    \/ AddDieClick

SpecBoot ==
    Init /\ [][NextBoot]_vars /\ WF_vars(CheckSDKInit) /\ WF_vars(AdDone)

\* ------------------------------------------------------------ properties
Emitted(n) == \E i \in DOMAIN emitted : emitted[i] = n

\* The handler that ran last called mergeDice on two distinct cells that
\* held the same die value.
ValidMerge ==
    /\ mergeCall # <<>>
    /\ mergeCall[1].src # mergeCall[1].tgt
    /\ mergeCall[1].v1 # Null
    /\ mergeCall[1].v1 = mergeCall[1].v2

Occupied(b) == {c \in Cells : b[c] # Null}

\* Orthogonal neighbours, in any of the four directions.
Adjacent(c, d) ==
    LET dr == (c \div BoardSize) - (d \div BoardSize)
        dc == (c % BoardSize) - (d % BoardSize)
    IN dr * dr + dc * dc = 1

\* C1: every mergeDice call reached through the public events has distinct
\* source and target cells, both non-empty and both holding the same value.
C1_MergePrecondition ==
    mergeCall # <<>> =>
        /\ mergeCall[1].src # mergeCall[1].tgt
        /\ mergeCall[1].v1 # Null
        /\ mergeCall[1].v2 # Null
        /\ mergeCall[1].v1 = mergeCall[1].v2

\* C2: a merge of two cells holding v leaves the source empty, the target
\* holding v + 1, and every other cell as it was.
C2_MergePlacement ==
    [][ValidMerge' =>
          LET c == mergeCall'[1] IN
          /\ board'[c.src] = Null
          /\ board'[c.tgt] = c.v1 + 1
          /\ \A k \in Cells \ {c.src, c.tgt} : board'[k] = board[k]]_vars

C2_Witness ==
    /\ ValidMerge
    /\ board[mergeCall[1].src] = Null
    /\ board[mergeCall[1].tgt] = mergeCall[1].v1 + 1
    /\ mergeCall[1].src > mergeCall[1].tgt

\* C3: a merge of two dice of value v adds exactly 2 * (v + 1) to the score,
\* and a step with neither a merge nor a session reset leaves the score alone.
C3_ScoreLaw ==
    [][/\ ValidMerge' => score' = score + 2 * (mergeCall'[1].v1 + 1)
       /\ (mergeCall' = <<>> /\ ~Emitted("resetBoard")') => score' = score]_vars

C3_Witness ==
    /\ ValidMerge
    /\ mergeCall[1].v1 = 2
    /\ moveCount = 2
    /\ score = 10

\* C4: isGameOver is true exactly when the grid has no empty cell and no two
\* orthogonally adjacent cells, in any direction, hold equal values.
C4_GameOverIff ==
    result # <<>> =>
        result[1] = (/\ \A c \in Cells : board[c] # Null
                     /\ \A c, d \in Cells :
                           Adjacent(c, d) => board[c] # board[d])

C4_Witness ==
    /\ result = <<TRUE>>
    /\ \E c, d \in Cells : c # d /\ board[c] = board[d]

\* C5: once a session has started, highestDie is the largest die value that
\* has been on the grid during the session.
C5_HighestIsMaxEver ==
    (started /\ maxEver > 0) => highestDie = maxEver

\* C6: within a session highestDie never decreases, and after a merge it is
\* the larger of its previous value and the merged value.
C6_HighestMonotone ==
    [][/\ ~Emitted("resetBoard")' => highestDie' >= highestDie
       /\ mergeCall' # <<>> =>
             highestDie' = Max(highestDie, ToNumber(mergeCall'[1].v1) + 1)]_vars

C6_Witness ==
    /\ ValidMerge
    /\ highestDie > mergeCall[1].v1 + 1

\* C7: while gameOver is true, a step that is not a session reset changes
\* none of grid, score, highestDie, moveCount and selection.
C7_GameOverRejects ==
    [][(gameOver /\ ~Emitted("resetBoard")') =>
          UNCHANGED <<board, score, highestDie, moveCount, selectedCell>>]_vars

\* C8: a drag that ends by changing grid, score, highestDie or moveCount was
\* dropped on a non-empty cell holding the value of the die picked up.
C8_DropNoOp ==
    [][(/\ isDragging
        /\ ~isDragging'
        /\ <<board, score, highestDie, moveCount>>'
              # <<board, score, highestDie, moveCount>>) =>
          /\ mergeCall' # <<>>
          /\ mergeCall'[1].v2 # Null
          /\ mergeCall'[1].v2 = clonedDie]_vars

\* C9: when actuallyStartNewGame has run, score is 0, highestDie 1,
\* moveCount 0, no cell is selected and the game is not over.
C9_ResetState ==
    Emitted("resetBoard") =>
        /\ score = 0
        /\ highestDie = 1
        /\ moveCount = 0
        /\ selectedCell = NoCell
        /\ ~gameOver

C9_Witness ==
    /\ Emitted("resetBoard")
    /\ highScores # <<>>
    /\ scoreChanged = FALSE

\* C10: right after actuallyStartNewGame the grid holds exactly initialDice
\* dice, each of value 1 or 2, and every other cell is empty.
C10_InitialDice ==
    Emitted("resetBoard") =>
        /\ Cardinality(Occupied(board)) = initialDice
        /\ \A c \in Occupied(board) : board[c] \in {1, 2}

C10_Witness ==
    /\ Emitted("resetBoard")
    /\ \E c, d \in Cells : board[c] = 1 /\ board[d] = 2

\* The test handleCellClick and handleDragEnd apply before merging two dice:
\* two distinct cells, a die in the first, the same value in the second.
MergeAccepted(b, c, d) ==
    /\ c # d
    /\ b[c] # Null
    /\ b[c] = b[d]

\* C11: while gameOver is true the grid holds no two distinct cells with
\* equal dice, i.e. no pair the click or drag merge test accepts.
C11_OverOnlyWithoutMerges ==
    gameOver => ~ \E c, d \in Cells : MergeAccepted(board, c, d)

\* C12: gameOver goes from false to true only in a step that merged or
\* spawned a die, and only when isGameOver holds of the grid the step left.
C12_OverOnlyBySpawnOrMerge ==
    [][(~gameOver /\ gameOver') =>
          /\ mergeCall' # <<>> \/ Emitted("animateNew")'
          /\ IsGameOver(board')
          /\ Emitted("showGameOver")']_vars

C12_Witness ==
    /\ gameOver
    /\ ~lastEvent.over
    /\ lastEvent.op = "addDie"
    /\ Emitted("animateNew")
    /\ Emitted("showGameOver")

\* C13: after a session reset that found gameOver true, gameOver is false
\* and input is served again: the add-die button is enabled and a spawn
\* places a die, a click on a die selects it, and a second click on an
\* equal die merges the two.
C13_RestartFromOver ==
    (lastEvent.over /\ Emitted("resetBoard")) =>
        /\ ~gameOver
        /\ ~addDieDisabled
        /\ \A g \in AddRandomDie(Session) :
              Cardinality(Occupied(g.board)) = Cardinality(Occupied(board)) + 1
        /\ \A c \in Occupied(board) :
              HandleCellClick(Session, c).selectedCell = c
        /\ \A c, d \in Cells :
              MergeAccepted(board, c, d) =>
                 HandleCellClick(HandleCellClick(Session, c), d).mergeCall
                    = <<[src |-> c, tgt |-> d, v1 |-> board[c], v2 |-> board[d]]>>

C13_Witness ==
    /\ lastEvent.over
    /\ lastEvent.op = "newGame"
    /\ Emitted("resetBoard")
    /\ ~gameOver
    /\ \E c, d \in Cells : MergeAccepted(board, c, d)

\* C14: a click on an empty cell, whatever the selection, leaves grid, score,
\* highestDie, moveCount, selectedCell and gameOver unchanged.
C14_EmptyCellClickNoOp ==
    [][(lastEvent'.op = "click" /\ board[lastEvent'.cell] = Null) =>
          UNCHANGED <<board, score, highestDie, moveCount, selectedCell,
                      gameOver>>]_vars

C14_Witness ==
    /\ lastEvent.op = "click"
    /\ board[lastEvent.cell] = Null
    /\ ~lastEvent.over
    /\ lastEvent.sel # NoCell
    /\ selectedCell = lastEvent.sel

\* C15: with a cell selected, a click on a different cell holding the same
\* value calls mergeDice(selectedCell, clicked cell), adjacent or not: the
\* selected cell is emptied, the clicked cell holds the value plus one, the
\* score grows by twice that and highestDie is raised to it if smaller.
C15_ClickMerges ==
    [][LET c == lastEvent'.cell
           s == selectedCell
       IN (/\ lastEvent'.op = "click"
           /\ ~gameOver
           /\ s # NoCell
           /\ s # c
           /\ board[c] # Null
           /\ board[s] = board[c]) =>
             /\ mergeCall' = <<[src |-> s, tgt |-> c,
                                v1 |-> board[s], v2 |-> board[c]]>>
             /\ board' = [board EXCEPT ![s] = Null, ![c] = board[c] + 1]
             /\ score' = score + 2 * (board[c] + 1)
             /\ highestDie' = Max(highestDie, board[c] + 1)]_vars

\* The merge of the 2s at cells 0 and 1 as the first move of a session.
C15_Witness ==
    /\ lastEvent.op = "click"
    /\ lastEvent.sel = 0
    /\ lastEvent.cell = 1
    /\ mergeCall = <<[src |-> 0, tgt |-> 1, v1 |-> 2, v2 |-> 2]>>
    /\ board[0] = Null
    /\ board[1] = 3
    /\ score = 6
    /\ highestDie = 3

\* A click merge of two cells that are not neighbours.
C15_WitnessApart ==
    /\ lastEvent.op = "click"
    /\ mergeCall # <<>>
    /\ ~Adjacent(mergeCall[1].src, mergeCall[1].tgt)
    /\ board[mergeCall[1].src] = Null
    /\ board[mergeCall[1].tgt] = mergeCall[1].v1 + 1

\* C16: with no cell selected and the game not over, a click on a die sets
\* selectedCell to that cell and leaves grid, score, highestDie, moveCount,
\* gameOver and the saved scores unchanged.
C16_FirstClickSelects ==
    [][(/\ lastEvent'.op = "click"
        /\ selectedCell = NoCell
        /\ ~gameOver
        /\ board[lastEvent'.cell] # Null) =>
          /\ selectedCell' = lastEvent'.cell
          /\ mergeCall' = <<>>
          /\ UNCHANGED <<board, score, highestDie, moveCount, gameOver,
                         highScores, scoreChanged>>]_vars

C16_Witness ==
    /\ lastEvent.op = "click"
    /\ lastEvent.sel = NoCell
    /\ ~lastEvent.over
    /\ selectedCell = lastEvent.cell
    /\ board[selectedCell] # Null
    /\ emitted = <<"sound:select">>
    /\ score > 0

\* The session fields of a record g.
Fields(g) ==
    <<g.board, g.score, g.highestDie, g.moveCount, g.selectedCell, g.gameOver>>

\* C17: a click on the selected cell clears the selection and leaves grid,
\* score, highestDie and moveCount unchanged; and when a click has selected
\* a cell from no selection, a second click on it gives back the session
\* state from before the first.
C17_SecondClickDeselects ==
    [][LET c == lastEvent'.cell IN
       /\ (/\ lastEvent'.op = "click"
           /\ ~gameOver
           /\ board[c] # Null
           /\ selectedCell = c) =>
             /\ selectedCell' = NoCell
             /\ mergeCall' = <<>>
             /\ UNCHANGED <<board, score, highestDie, moveCount, gameOver>>
       /\ (/\ lastEvent'.op = "click"
           /\ ~gameOver
           /\ board[c] # Null
           /\ selectedCell = NoCell) =>
             Fields(HandleCellClick(Session', c)) = Fields(Session)]_vars

C17_Witness ==
    /\ lastEvent.op = "click"
    /\ ~lastEvent.over
    /\ lastEvent.sel = lastEvent.cell
    /\ board[lastEvent.cell] # Null
    /\ selectedCell = NoCell
    /\ mergeCall = <<>>

\* C18: with a cell selected, a click on a different die of a different
\* value moves the selection to the clicked cell and leaves grid, score,
\* highestDie and moveCount unchanged.
C18_ClickMovesSelection ==
    [][LET c == lastEvent'.cell
           s == selectedCell
       IN (/\ lastEvent'.op = "click"
           /\ ~gameOver
           /\ s # NoCell
           /\ s # c
           /\ board[c] # Null
           /\ board[s] # board[c]) =>
             /\ selectedCell' = c
             /\ mergeCall' = <<>>
             /\ UNCHANGED <<board, score, highestDie, moveCount>>]_vars

C18_Witness ==
    /\ lastEvent.op = "click"
    /\ ~lastEvent.over
    /\ lastEvent.sel # NoCell
    /\ lastEvent.sel # lastEvent.cell
    /\ selectedCell = lastEvent.cell
    /\ board[lastEvent.sel] # Null
    /\ board[lastEvent.cell] # Null
    /\ board[lastEvent.sel] # board[lastEvent.cell]

\* C19: addRandomDie on a grid with no empty cell leaves grid, score,
\* highestDie, moveCount, selectedCell and gameOver unchanged, places no
\* die, and refreshes the add-die button.
C19_SpawnOnFullGrid ==
    [][(/\ lastEvent'.op \in {"addDie", "addRandomDie"}
        /\ EmptyCells(board) = {}) =>
          /\ UNCHANGED <<board, score, highestDie, moveCount, selectedCell,
                         gameOver>>
          /\ emitted' = <<"updateAddDieButton">>
          /\ addDieDisabled']_vars

C19_Witness ==
    /\ lastEvent.op = "addRandomDie"
    /\ EmptyCells(board) = {}
    /\ emitted = <<"updateAddDieButton">>
    /\ addDieDisabled
    /\ ~gameOver
    /\ selectedCell # NoCell

\* C20: addRandomDie on a grid with an empty cell changes exactly one cell,
\* empty before and holding 1 or 2 after, and leaves the other cells, score,
\* highestDie, moveCount and selectedCell unchanged; and wherever the
\* add-die button can be clicked, every empty cell with either value is one
\* of the outcomes.
C20_SpawnPlacesOneDie ==
    [][/\ (/\ lastEvent'.op = "addDie"
           /\ EmptyCells(board) # {}) =>
             /\ \E c \in EmptyCells(board) :
                   /\ board'[c] \in {1, 2}
                   /\ \A k \in Cells \ {c} : board'[k] = board[k]
             /\ UNCHANGED <<score, highestDie, moveCount, selectedCell>>
       /\ (started /\ ~addDieDisabled) =>
             \A c \in EmptyCells(board), v \in {1, 2} :
                \E g \in AddRandomDie(Session) :
                   g.board = [board EXCEPT ![c] = v]]_vars

C20_Witness ==
    /\ lastEvent.op = "addDie"
    /\ Emitted("animateNew")
    /\ lastEvent.sel # NoCell
    /\ selectedCell = lastEvent.sel
    /\ highestDie = 1
    /\ \E c \in Cells : board[c] = 2

\* C21: the grid always has exactly BoardSize * BoardSize cells, and every
\* cell is empty or holds an integer of at least 1.
C21_GridShape ==
    /\ DOMAIN board = Cells
    /\ Cardinality(DOMAIN board) = BoardSize * BoardSize
    /\ \A c \in Cells :
          board[c] = Null \/ (board[c] \in Int /\ board[c] >= 1)

\* A drag that merged two empty cells: the die it leaves has value 1.
C21_Witness ==
    /\ lastEvent.op = "dragEnd"
    /\ mergeCall # <<>>
    /\ mergeCall[1].v1 = Null
    /\ board[mergeCall[1].tgt] = 1
    /\ Cardinality(DOMAIN board) = BoardSize * BoardSize

\* C22: when a merge has saved a score record, the saved list holds a record
\* whose score and highestDie are the session's score and highestDie as the
\* merge left them.
C22_SnapshotConsistent ==
    Emitted("saveScore") =>
        \E i \in DOMAIN highScores :
            /\ highScores[i].score = score
            /\ highScores[i].highestDie = highestDie

\* C23: a handler that merged two dice, or that ran the game-over procedure,
\* saved a score record.
C23_SnapshotAtMergeAndOver ==
    (mergeCall # <<>> \/ Emitted("showGameOver")) => Emitted("saveScore")

\* Number of records of list s with score v.
CountScore(s, v) == Cardinality({i \in DOMAIN s : s[i].score = v})

\* C24: after every saveScore that stores a record, the list has at most
\* TopK records, is in non-increasing order of score, holds only records of
\* the old list and the new one, and a record is missing from it only if
\* TopK records with a score at least as large are in it.
C24_TopSorted ==
    [][Emitted("saveScore")' =>
          LET old == highScores
              new == highScores'
              had(v) == CountScore(old, v) + (IF v = score' THEN 1 ELSE 0)
          IN /\ Len(new) <= TopK
             /\ \A i, j \in DOMAIN new : i < j => new[i].score >= new[j].score
             /\ \A v \in 0 .. MaxScoreVal :
                   /\ CountScore(new, v) <= had(v)
                   /\ CountScore(new, v) < had(v) =>
                         Cardinality({i \in DOMAIN new : new[i].score >= v})
                            >= TopK]_vars

\* A save on a full list whose new record is the one dropped.
C24_Witness ==
    /\ lastEvent.op = "saveScore"
    /\ Emitted("saveScore")
    /\ Len(highScores) = TopK
    /\ \A i \in DOMAIN highScores : highScores[i].score > score
    /\ highScores[1].score > highScores[TopK].score

\* Position of the first and of the last notification n of the handler.
First(n) == CHOOSE i \in DOMAIN emitted :
               emitted[i] = n /\ \A j \in 1 .. (i - 1) : emitted[j] # n

Last(n) == CHOOSE i \in DOMAIN emitted :
              emitted[i] = n /\ \A j \in (i + 1) .. Len(emitted) : emitted[j] # n

\* C25: a handler that merged sent the merge animation, then the merge
\* sound, then the score update; and if the merge left a grid on which the
\* game is over, the game-over notification was sent in the same handler,
\* after all three.
C25_MergeOrder ==
    mergeCall # <<>> =>
        /\ Emitted("animateMerge")
        /\ Emitted("sound:merge")
        /\ Emitted("updateScore")
        /\ Last("animateMerge") < First("sound:merge")
        /\ Last("sound:merge") < First("updateScore")
        /\ IsGameOver(board) => Emitted("showGameOver")
        /\ Emitted("showGameOver") =>
              /\ gameOver
              /\ Last("updateScore") < First("showGameOver")

\* A merge that ended the game.
C25_Witness ==
    /\ mergeCall # <<>>
    /\ ~lastEvent.over
    /\ gameOver
    /\ Emitted("showGameOver")
    /\ First("animateMerge") < First("showGameOver")

C27_MergeClearsSelection ==
    mergeCall # <<>> =>
        /\ selectedCell = NoCell
        /\ selectedCls = {}

\* C28: a handler sends the upgrade sound and the new-record message
\* exactly when it merged to a value strictly greater than highestDie was
\* before the merge.
C28_UpgradeIff ==
    [][LET merged == mergeCall' # <<>>
           raised == merged /\ ToNumber(mergeCall'[1].v1) + 1 > highestDie
       IN /\ Emitted("sound:upgrade")' <=> raised
          /\ Emitted("showMessage")' <=> raised]_vars

\* A merge to the value highestDie already had: no upgrade.
C28_Witness ==
    /\ ValidMerge
    /\ mergeCall[1].v1 + 1 = highestDie
    /\ ~Emitted("sound:upgrade")
    /\ ~Emitted("showMessage")

\* C29: after every handler the add-die button is enabled exactly when the
\* grid has an empty cell and gameOver is false, and a spawn through the
\* button or the A key happens only from a state in which it is enabled.
C29_AddDieButton ==
    [][/\ addDieDisabled' <=> (EmptyCells(board') = {} \/ gameOver')
       /\ lastEvent'.op = "addDie" =>
             /\ ~addDieDisabled
             /\ EmptyCells(board) # {}
             /\ ~gameOver
             /\ Emitted("animateNew")']_vars

\* A spawn that filled the grid without ending the game.
C29_Witness ==
    /\ lastEvent.op = "addDie"
    /\ EmptyCells(board) = {}
    /\ ~gameOver
    /\ addDieDisabled
    /\ Emitted("updateAddDieButton")

\* C30: in every state gameOver is true exactly when isGameOver holds of
\* the current grid.
C30_OverFlagExact ==
    gameOver <=> IsGameOver(board)

\* ------------------------------------------------------ the ad wrapper
\* What the platform does with a request: the page has no SDK object, the
\* SDK has no ad interface, requestAd throws, or the ad is taken on.
AdEnv == {"missing", "noAds", "throws", "works"}

\* crazyGamesSDK.showMidgameAd() called on its own.  A throw of requestAd
\* inside the promise rejects it after adRequested was set.
ShowMidgameAd(env) ==
    /\ env \in {"throws", "works"}
    /\ IF ~sdkInitialized \/ adRequested
       THEN /\ result' = <<"false">>
            /\ UNCHANGED <<adRequested, adsPending>>
       ELSE /\ adRequested' = TRUE
            /\ IF env = "throws"
               THEN /\ result' = <<"rejected">>
                    /\ UNCHANGED adsPending
               ELSE /\ result' = <<"pending">>
                    /\ adsPending' = Append(adsPending, "midgame")
    /\ Store(Session)
    /\ lastEvent' = Event("showMidgameAd", NoCell)
    /\ UNCHANGED <<uiVars, started, sdkInitialized, overlapped, wrapVars,
                   boardVars>>

\* Variant of showRewardedAd that does not look at adRequested.
ShowRewardedAdNoGuard(env) ==
    /\ env \in AdEnv
    /\ IF env = "missing"
       THEN /\ result' = <<"false">>
            /\ UNCHANGED <<sdkInitialized, adRequested, adsPending>>
       ELSE /\ sdkInitialized' = TRUE
            /\ IF env = "noAds" \/ env = "throws"
               THEN /\ result' = <<"false">>
                    /\ adRequested' = (adRequested /\ env = "noAds")
                    /\ UNCHANGED adsPending
               ELSE /\ adRequested' = TRUE
                    /\ adsPending' = Append(adsPending, "rewarded")
                    /\ result' = <<"pending">>
    /\ Store(Session)
    /\ lastEvent' = Event("showRewardedAd", NoCell)
    /\ UNCHANGED <<uiVars, started, overlapped, wrapVars, boardVars>>

\* crazyGamesSDK.showRewardedAd() called on its own (no reward callback).
\* It takes the SDK object from the page if the wrapper has none yet.  A
\* throw of requestAd is caught inside the promise, which clears
\* adRequested and resolves false.
ShowRewardedAd(env) ==
    /\ env \in AdEnv
    /\ IF env = "missing"
       THEN /\ result' = <<"false">>
            /\ UNCHANGED <<sdkInitialized, adRequested, adsPending>>
       ELSE /\ sdkInitialized' = TRUE
            /\ IF env = "noAds" \/ adRequested
               THEN /\ result' = <<"false">>
                    /\ UNCHANGED <<adRequested, adsPending>>
               ELSE IF env = "throws"
               THEN /\ result' = <<"false">>
                    /\ adRequested' = FALSE
                    /\ UNCHANGED adsPending
               ELSE /\ adRequested' = TRUE
                    /\ adsPending' = Append(adsPending, "rewarded")
                    /\ result' = <<"pending">>
    /\ Store(Session)
    /\ lastEvent' = Event("showRewardedAd", NoCell)
    /\ UNCHANGED <<uiVars, started, overlapped, wrapVars, boardVars>>

\* adFinished (ok) or adError of an ad asked for by one of the two calls
\* above: the listeners of that request clear adRequested and resolve.
AdReported(ok) ==
    /\ adsPending # <<>>
    /\ Head(adsPending) \in {"midgame", "rewarded"}
    /\ adRequested' = FALSE
    /\ adsPending' = Tail(adsPending)
    /\ result' = IF ok THEN <<"true">> ELSE <<"false">>
    /\ Store(Session)
    /\ lastEvent' = Event("adReported", NoCell)
    /\ UNCHANGED <<uiVars, started, sdkInitialized, overlapped, wrapVars,
                   boardVars>>

\* Every way an ad is asked for: new-game requests and the two calls of the
\* wrapper, with the platform's reports.
NextAdCalls ==
    \/ GameInit
    \/ SDKReady
    \/ NewGameClick
    \/ AdDone
    \/ \E env \in AdEnv : ShowMidgameAd(env)
    \/ \E env \in AdEnv : ShowRewardedAd(env)
    \/ \E ok \in BOOLEAN : AdReported(ok)

SpecAdCalls == Init /\ [][NextAdCalls]_vars

\* ------------------------------------------------ the wrapper's onInit
\* The wrapper while its init() is still running (YandexSDK.init awaits
\* the platform; CrazyGamesSDK.init runs to its end inside the constructor).
InitSDK ==
    /\ board = EmptyBoard
    /\ score = 0
    /\ moveCount = 0
    /\ highestDie = 1
    /\ selectedCell = NoCell
    /\ gameOver = FALSE
    /\ highScores = <<>>
    /\ scoreChanged = FALSE
    /\ addDieDisabled = FALSE
    /\ selectedCls = {}
    /\ isDragging = FALSE
    /\ startCellIndex = NoCell
    /\ clonedDie = Null
    /\ started = FALSE
    /\ sdkInitialized = FALSE
    /\ adRequested = FALSE
    /\ adsPending = <<>>
    /\ overlapped = FALSE
    /\ initDone = FALSE
    /\ initCallbacks = <<>>
    /\ calls = <<>>
    /\ lookups = <<>>
    /\ submitted = <<>>
    /\ emitted = <<>>
    /\ mergeCall = <<>>
    /\ maxEver = 0
    /\ result = <<>>
    /\ lastEvent = NoEvent

\* init() reaches its end, with initialized true (ok) or false, and
\* triggers the queued callbacks.
SDKInit(ok) ==
    /\ ~initDone
    /\ initDone' = TRUE
    /\ sdkInitialized' = ok
    /\ calls' = TriggerInitCallbacks(initCallbacks, calls)
    /\ initCallbacks' = <<>>
    /\ Store(Session)
    /\ lastEvent' = Event("sdkInit", NoCell)
    /\ UNCHANGED <<uiVars, started, adRequested, adVars, boardVars, result>>

\* onInit(callback) for a callback not registered before: called at once
\* if initialized is true, queued otherwise.
OnInit(cb) ==
    /\ cb \notin DOMAIN calls
    /\ IF sdkInitialized
       THEN /\ calls' = calls @@ (cb :> 1)
            /\ UNCHANGED initCallbacks
       ELSE /\ calls' = calls @@ (cb :> 0)
            /\ initCallbacks' = Append(initCallbacks, cb)
    /\ Store(Session)
    /\ lastEvent' = Event("onInit", NoCell)
    /\ UNCHANGED <<uiVars, started, sdkInitialized, adRequested, adVars,
                   initDone, boardVars, result>>

NextSDK ==
    \/ \E ok \in BOOLEAN : SDKInit(ok)
    \/ \E cb \in 1 .. MaxCallbacks : OnInit(cb)
    \/ SDKReady

SpecSDK == InitSDK /\ [][NextSDK]_vars

\* ------------------------------------------------ leaderboard (Yandex build)
\* Game.checkPendingUpdates, run when the page is hidden, and the
\* updateYandexLeaderboard it calls: with a changed, positive score the flag
\* is cleared and, if the SDK is initialized, the player's leaderboard
\* score is asked for; the comparison waits for the answer.
CheckPendingUpdates ==
    /\ started
    /\ IF scoreChanged /\ score > 0
       THEN /\ Store([Session EXCEPT !.scoreChanged = FALSE])
            /\ lookups' = IF sdkInitialized THEN Append(lookups, score)
                                            ELSE lookups
       ELSE /\ Store(Session)
            /\ UNCHANGED lookups
    /\ lastEvent' = Event("checkPendingUpdates", NoCell)
    /\ UNCHANGED <<uiVars, started, sdkInitialized, adRequested, adVars,
                   wrapVars, submitted, result>>

\* What getPlayerLeaderboardScore resolves with: <<>> for null (no entry,
\* or any error), <<n>> for the player's score n (merge scores are even).
RemoteScores == {<<>>} \cup {<<n + n>> : n \in 0 .. MaxScoreVal}

\* The then-callback of updateYandexLeaderboard for the i-th pending
\* request: it submits this.score, read when the callback runs, if the
\* answer is null or lower than it.
PlayerScore(i, currentScore) ==
    /\ i \in 1 .. Len(lookups)
    /\ lookups' = [j \in 1 .. (Len(lookups) - 1) |->
                      IF j < i THEN lookups[j] ELSE lookups[j + 1]]
    /\ submitted' = IF currentScore = <<>> \/ score > currentScore[1]
                    THEN <<[score |-> score, trigger |-> lookups[i],
                            current |-> currentScore]>>
                    ELSE submitted
    /\ Store(Session)
    /\ lastEvent' = Event("playerScore", NoCell)
    /\ UNCHANGED <<uiVars, started, sdkInitialized, adRequested, adVars,
                   wrapVars, result>>

\* Play with the leaderboard: merges by click, new-game requests behind
\* the ad gate, page-hide events and the answers of the leaderboard.
NextBoard ==
    \/ GameInit
    \/ SDKReady
    \/ NewGameClick
    \/ AdDone
    \/ \E index \in Cells : CellClick(index)
    \/ CheckPendingUpdates
    \/ \E i \in 1 .. MaxSaved, currentScore \in RemoteScores :
          PlayerScore(i, currentScore)

SpecBoard == Init /\ [][NextBoard]_vars

\* C31: after a merge the source cell is empty, isGameOver is false of the
\* grid and gameOver is as it was; and a step that raises gameOver merged
\* nothing and placed a die on the last empty cell.
C31_MergeNeverEndsGame ==
    [][/\ mergeCall' # <<>> =>
             /\ board'[mergeCall'[1].src] = Null
             /\ ~IsGameOver(board')
             /\ gameOver' = gameOver
             /\ ~Emitted("showGameOver")'
       /\ (~gameOver /\ gameOver') =>
             /\ mergeCall' = <<>>
             /\ Emitted("animateNew")'
             /\ Cardinality(EmptyCells(board)) = 1
             /\ EmptyCells(board') = {}]_vars

\* A merge on a full grid.
C31_Witness ==
    /\ ValidMerge
    /\ ~gameOver
    /\ EmptyCells(board) = {mergeCall[1].src}
    /\ ~Emitted("showGameOver")

\* C32: in every state of a started session with gameOver false a move is
\* open: the add-die button is enabled over an empty cell, or two
\* neighbouring cells hold equal dice.
C32_NeverStuckWhilePlaying ==
    (started /\ ~gameOver) =>
        \/ EmptyCells(board) # {} /\ ~addDieDisabled
        \/ \E c, d \in Cells :
              Adjacent(c, d) /\ board[c] # Null /\ board[c] = board[d]

\* A full grid in play: the only open move is a merge of neighbours.
C32_Witness ==
    /\ started
    /\ ~gameOver
    /\ EmptyCells(board) = {}
    /\ Emitted("animateNew")
    /\ \E c, d \in Cells :
          Adjacent(c, d) /\ board[c] # Null /\ board[c] = board[d]

\* C33: whenever selectedCell is set the cell it names holds a die.
C33_SelectionOnDie ==
    selectedCell # NoCell => board[selectedCell] # Null

\* A selection that survived a drag of its own die onto another cell.
C33_Witness ==
    /\ selectedCell # NoCell
    /\ board[selectedCell] # Null
    /\ lastEvent.op = "dragEnd"
    /\ lastEvent.sel = selectedCell

\* C34: moveCount = 0, score = 0 and highestDie = 1 are equivalent in every
\* state; after a merge score >= 4 and highestDie >= 2; moveCount grows by
\* one in a step that merges and is otherwise unchanged or reset to 0.
C34_MergeCounters ==
    [][/\ (moveCount' = 0) = (score' = 0)
       /\ (score' = 0) = (highestDie' = 1)
       /\ mergeCall' # <<>> =>
             score' >= 4 /\ highestDie' >= 2 /\ moveCount' = moveCount + 1
       /\ mergeCall' = <<>> =>
             moveCount' = moveCount \/ (Emitted("resetBoard")' /\ moveCount' = 0)
      ]_vars

\* C35: no cell holds a value above max(highestDie, 2), and whenever
\* highestDie >= 2 some cell holds exactly highestDie.
C35_RecordOnGrid ==
    /\ \A c \in Cells : ToNumber(board[c]) <= Max(highestDie, 2)
    /\ highestDie >= 2 => \E c \in Cells : board[c] = highestDie

\* A merge of two record dice: the old record left the grid for a new one,
\* held by one cell.
C35_Witness ==
    /\ ValidMerge
    /\ mergeCall[1].v1 = 2
    /\ highestDie = 3
    /\ Cardinality({c \in Cells : board[c] = highestDie}) = 1
    /\ moveCount = 2

\* C36: the callback of a midgame ad never resets a session that a later
\* new-game request has started and in which the player has merged.
C36_NoSecondReset ==
    [][(overlapped /\ moveCount > 0) =>
           ~(lastEvent'.op = "adDone" /\ Emitted("resetBoard")')]_vars

\* C37: after construction the game eventually runs init() and starts its
\* first session, whatever the SDK's initialisation ended with.
C37_StartupRuns ==
    <>(started /\ Emitted("resetBoard"))

\* C38: a score submitted to the leaderboard is the score the session had
\* when the update was triggered, is positive, and exceeds the player's
\* leaderboard score when that is known.
C38_SubmittedScore ==
    submitted # <<>> =>
        /\ submitted[1].score = submitted[1].trigger
        /\ submitted[1].score > 0
        /\ submitted[1].current # <<>> =>
              submitted[1].score > submitted[1].current[1]

C40_CallbackOnce ==
    initDone => \A cb \in DOMAIN calls : calls[cb] = 1

====
